---- MODULE Spec2Model ----
(***************************************************************************)
(* A model of neuralmonkey/dataset.py: the eager Dataset, the LazyDataset,  *)
(* the loader load_dataset_from_files, the series generator                *)
(* create_dataset_series and the batching generators batch_serie and       *)
(* batch_dataset.                                                          *)
(*                                                                         *)
(* Python values are modelled as follows.                                  *)
(*   - a string that the code inspects character by character (a keyword   *)
(*     key, a series name) is a tuple of one-character strings;            *)
(*   - a dict is a sequence of <<key, value>> pairs in insertion order;    *)
(*   - a series value is a record [kind, items] where kind is the Python   *)
(*     type the code tests with isinstance ("list", "tuple", "None");      *)
(*   - a raised exception is a record [kind |-> "raise", type, info];      *)
(*   - a generator is a record holding the position its body is suspended  *)
(*     at and the objects its frame refers to.                             *)
(***************************************************************************)
EXTENDS Integers, Sequences, FiniteSets, TLC

\* ------------------------------------------------------------- bounds
\* longest text file / longest list given to a constructor
MaxLen == 3
\* most records in a numeric file
MaxRecords == 2
\* largest batch size tried
MaxBatch == 2
\* most keyword arguments given to the loader
MaxKwargs == 2
\* longest text file handed to the loader
MaxLines == 1

\* ------------------------------------------------------------- values
Min(a, b) == IF a < b THEN a ELSE b

SetMax(S) == CHOOSE m \in S : \A x \in S : x <= m

\* the element of a one-element set: Only({e(r) : r \in {x}}) is e(x) with x
\* evaluated once, the way a Python local holds the result of a call
Only(S) == CHOOSE v \in S : TRUE

RECURSIVE SeqsUpTo(_, _)
\* all sequences over S of length at most n
SeqsUpTo(S, n) ==
  IF n = 0 THEN {<<>>}
  ELSE LET shorter == SeqsUpTo(S, n - 1)
       IN  shorter \cup {Append(s, x) : s \in {t \in shorter : Len(t) = n - 1}, x \in S}

\* the permutations of 1..n, the outcomes random.shuffle can produce
Perms(n) == {p \in [1..n -> 1..n] : \A i, j \in 1..n : p[i] = p[j] => i = j}

\* The examples a caller builds a dataset from: an example has a source item
\* and a target item, and the same example may occur twice.
Examples == {1, 2}

SrcItem(e) == <<"src", e>>

TgtItem(e) == <<"tgt", e>>

\* series names (identifiers without underscore) and dataset names
SrcName == <<"x">>
TgtName == <<"y">>
OtherName == <<"z">>
DatasetName == <<"N">>

\* ------------------------------------------------------------- dicts
DictKeys(d) == [i \in 1..Len(d) |-> d[i][1]]

DictHas(d, k) == \E i \in 1..Len(d) : d[i][1] = k

DictGet(d, k) == d[CHOOSE i \in 1..Len(d) : d[i][1] = k][2]

\* d[k] = v: a present key keeps its place, a new key goes last
DictSet(d, k, v) ==
  IF DictHas(d, k)
  THEN [i \in 1..Len(d) |-> IF d[i][1] = k THEN <<k, v>> ELSE d[i]]
  ELSE Append(d, <<k, v>>)

RECURSIVE DictFromPairs(_)
\* a dict comprehension over the pairs, later pairs overriding earlier ones
DictFromPairs(ps) ==
  IF ps = <<>> THEN <<>>
  ELSE LET n == Len(ps)
       IN  DictSet(DictFromPairs(SubSeq(ps, 1, n - 1)), ps[n][1], ps[n][2])

\* ------------------------------------------------------------- python values
PyList(s) == [kind |-> "list", items |-> s]

PyTuple(s) == [kind |-> "tuple", items |-> s]

PyNone == [kind |-> "None", items |-> <<>>]

Raise(type, info) == [kind |-> "raise", type |-> type, info |-> info]

Return(what, val) == [kind |-> what, val |-> val]

IsRaise(r, type) == r.kind = "raise" /\ r.type = type

\* ------------------------------------------------------------- files
\* A path stands for the file behind it: what python-magic detects in it and
\* how many lines or records it holds.  Files do not change.
MimeText == "text/plain"
MimeNumeric == "application/octet-stream"
MimeOther == "application/pdf"

\* text files of up to n lines, a numeric file and a file of another kind
PathsUpTo(n) ==
  {[mime |-> MimeText, n |-> i] : i \in 0..n}
  \cup {[mime |-> MimeNumeric, n |-> MaxRecords], [mime |-> MimeOther, n |-> 1]}

\* the files a caller names in LazyDataset(...) and in the keyword arguments
Paths == PathsUpTo(MaxLen)

KwargPaths == PathsUpTo(MaxLines)

OutPath == [mime |-> "out", n |-> 0]

magic_from_file(path) == path.mime

\* PlainTextFileReader(path).read(): one item per line, in file order
PlainTextFileReader_read(path) == [i \in 1..path.n |-> <<"line", i>>]

\* np.load(path): every record of the file, in file order
np_load(path) == [i \in 1..path.n |-> <<"rec", i>>]

\* the preprocessors a caller may pass: the default lambda x: x and another one
Preprocessors == {"identity", "lower"}

Preprocess(pp, item) == IF pp = "identity" THEN item ELSE <<"lower", item[2]>>

\* ------------------------------------------------------------- key patterns
\* SERIES_SOURCE = re.compile("s_([^_]*)$"), used with match(): anchored at the
\* start of the key.  (Keys hold no newline, so $ is the end of the key.)
SERIES_SOURCE_match(key) ==
  /\ Len(key) >= 2
  /\ key[1] = "s"
  /\ key[2] = "_"
  /\ \A i \in 3..Len(key) : key[i] # "_"

SERIES_SOURCE_group1(key) == SubSeq(key, 3, Len(key))

\* the places where "_out" can be matched after the greedy group
OutPlaces(key) ==
  {j \in 3..(Len(key) - 3) :
     key[j] = "_" /\ key[j + 1] = "o" /\ key[j + 2] = "u" /\ key[j + 3] = "t"}

\* SERIES_OUTPUT = re.compile("s_(.*)_out"), used with match(): anchored at the
\* start only, the group greedy.
SERIES_OUTPUT_match(key) ==
  /\ Len(key) >= 2
  /\ key[1] = "s"
  /\ key[2] = "_"
  /\ OutPlaces(key) # {}

SERIES_OUTPUT_group1(key) == SubSeq(key, 3, SetMax(OutPlaces(key)) - 1)

RECURSIVE SourcePairs(_)
\* <<name, path>> for the keys SERIES_SOURCE matches, in the order of the kwargs
SourcePairs(kwargs) ==
  IF kwargs = <<>> THEN <<>>
  ELSE LET kv == Head(kwargs)
           rest == SourcePairs(Tail(kwargs))
       IN  IF SERIES_SOURCE_match(kv[1])
           THEN <<<<SERIES_SOURCE_group1(kv[1]), kv[2]>>>> \o rest
           ELSE rest

RECURSIVE OutputPairs(_)
\* <<name, path>> for the keys SERIES_OUTPUT matches, in the order of the kwargs
OutputPairs(kwargs) ==
  IF kwargs = <<>> THEN <<>>
  ELSE LET kv == Head(kwargs)
           rest == OutputPairs(Tail(kwargs))
       IN  IF SERIES_OUTPUT_match(kv[1])
           THEN <<<<SERIES_OUTPUT_group1(kv[1]), kv[2]>>>> \o rest
           ELSE rest

_get_series_paths(kwargs) == DictFromPairs(SourcePairs(kwargs))

_get_series_outputs(kwargs) == DictFromPairs(OutputPairs(kwargs))

RECURSIVE _get_name_from_paths(_)
\* "dataset" followed by "-<path>" for every path, in dict order
_get_name_from_paths(series_paths) ==
  IF series_paths = <<>> THEN <<"dataset">>
  ELSE LET n == Len(series_paths)
       IN  _get_name_from_paths(SubSeq(series_paths, 1, n - 1)) \o <<"-", series_paths[n][2]>>

\* ------------------------------------------------------------- create_dataset_series
\* create_dataset_series is a generator function: calling it runs nothing, its
\* body starts at the first next().  A generator is [path, pp, st, pos]:
\*   st = "fresh"  created, body not started
\*   st = "open"   suspended at the yield of the text loop, pos lines read
\*   st = "done"   returned (StopIteration)
\*   st = "failed" raised
create_dataset_series(path, pp) == [path |-> path, pp |-> pp, st |-> "fresh", pos |-> 0]

\* a text loop that yields the line as read
TextLoop_Raw(g) ==
  Only({IF g.pos < Len(lines)
        THEN [out |-> Return("item", lines[g.pos + 1]),
              g |-> [g EXCEPT !.st = "open", !.pos = g.pos + 1]]
        ELSE [out |-> Return("stop", <<>>), g |-> [g EXCEPT !.st = "done"]]
          : lines \in {PlainTextFileReader_read(g.path)}})

\* the text loop: the next line through preprocess, or the end of the file
TextLoop(g) ==
  Only({IF g.pos < Len(lines)
        THEN [out |-> Return("item", Preprocess(g.pp, lines[g.pos + 1])),
              g |-> [g EXCEPT !.st = "open", !.pos = g.pos + 1]]
        ELSE [out |-> Return("stop", <<>>), g |-> [g EXCEPT !.st = "done"]]
          : lines \in {PlainTextFileReader_read(g.path)}})

\* one next() on the generator g: what it gives and the generator afterwards
SeriesNext(g) ==
  Only({IF g.st \in {"done", "failed"} THEN [out |-> Return("stop", <<>>), g |-> g]
        ELSE IF g.st = "open" \/ file_type = MimeText THEN TextLoop(g)
        ELSE IF file_type = MimeNumeric
        \* "return np.load(path)" in a generator: StopIteration(value), no item
        THEN [out |-> Return("stop", np_load(g.path)), g |-> [g EXCEPT !.st = "done"]]
        ELSE [out |-> Raise("UnsupportedFormat", <<file_type, g.path>>),
              g |-> [g EXCEPT !.st = "failed"]]
          : file_type \in {magic_from_file(g.path)}})

RECURSIVE Drain(_, _)
\* list(generator): the items until it stops, or the exception it raises
Drain(g, acc) ==
  Only({IF r.out.kind = "item" THEN Drain(r.g, Append(acc, r.out.val))
        ELSE IF r.out.kind = "stop" THEN Return("list", acc)
        ELSE r.out
          : r \in {SeriesNext(g)}})

\* ------------------------------------------------------------- Dataset
\* a check that measures the arrays only
CheckedLengths_ArraysOnly(series) ==
  {Len(series[i][2].items) :
     i \in {j \in 1..Len(series) : series[j][2].kind \in {"ndarray"}}}

\* the lengths _check_series_lengths collects: of list and ndarray values only
CheckedLengths(series) ==
  {Len(series[i][2].items) :
     i \in {j \in 1..Len(series) : series[j][2].kind \in {"list", "ndarray"}}}

\* a check that lets two different lengths pass
_check_series_lengths_OffByOne(series) ==
  IF Cardinality(CheckedLengths(series)) > 2
  THEN Raise("LengthMismatch",
             [i \in 1..Len(series) |-> <<series[i][1], Len(series[i][2].items)>>])
  ELSE Return("None", <<>>)

_check_series_lengths(series) ==
  IF Cardinality(CheckedLengths(series)) > 1
  THEN Raise("LengthMismatch",
             [i \in 1..Len(series) |-> <<series[i][1], Len(series[i][2].items)>>])
  ELSE Return("None", <<>>)

\* Dataset.__init__: the object, unless the check raises
Dataset__init__(name, series, series_outputs) ==
  Only({IF chk.kind = "raise" THEN chk
        ELSE Return("Dataset", [cls |-> "Dataset", name |-> name, series |-> series,
                                series_outputs |-> series_outputs,
                                series_paths |-> <<>>, preprocess |-> "identity"])
          : chk \in {_check_series_lengths(series)}})

\* LazyDataset.__init__: every series is None, the paths are kept
LazyDataset__init__(name, series_paths, series_outputs, pp) ==
  Only({IF super.kind = "raise" THEN super
        ELSE Return("Dataset", [super.val EXCEPT !.cls = "LazyDataset",
                                                 !.series_paths = series_paths,
                                                 !.preprocess = pp])
          : super \in {Dataset__init__(
              name, [i \in 1..Len(series_paths) |-> <<series_paths[i][1], PyNone>>],
              series_outputs)}})

Dataset__len__(self) ==
  IF self.series = <<>> THEN Return("int", 0)
  ELSE Return("int", Len(self.series[1][2].items))

\* the length the TODO of lines 308-310 considers
LazyDataset__len___Zero(self) == Return("int", 0)

LazyDataset__len__(self) == Raise("SizeUnknown", <<>>)

\* len(dataset), dispatched on the class of the object
len(self) == IF self.cls = "LazyDataset" THEN LazyDataset__len__(self) ELSE Dataset__len__(self)

\* the object of a name that was never bound to a dataset
NoDataset ==
  [cls |-> "none", name |-> <<>>, series |-> <<>>, series_outputs |-> <<>>,
   series_paths |-> <<>>, preprocess |-> "identity"]

\* Dataset.get_series: the stored object itself
Dataset_get_series(self, name, allow_none) ==
  IF DictHas(self.series, name) THEN Return("object", DictGet(self.series, name))
  ELSE IF allow_none THEN Return("None", <<>>)
  ELSE Raise("MissingSeries", <<name>>)

\* LazyDataset.get_series: a new generator over the file of the series
LazyDataset_get_series(self, name, allow_none) ==
  IF allow_none /\ ~DictHas(self.series_paths, name) THEN Return("None", <<>>)
  ELSE IF ~DictHas(self.series_paths, name) THEN Raise("MissingSeries", <<name>>)
  ELSE Return("generator",
              create_dataset_series(DictGet(self.series_paths, name), self.preprocess))

get_series(self, name, allow_none) ==
  IF self.cls = "LazyDataset" THEN LazyDataset_get_series(self, name, allow_none)
  ELSE Dataset_get_series(self, name, allow_none)

\* zip(*[self._series[k] for k in keys]): the rows, as many as the shortest series
Zipped(series) ==
  LET n == IF series = <<>> THEN 0
           ELSE CHOOSE m \in {Len(series[i][2].items) : i \in 1..Len(series)} :
                  \A i \in 1..Len(series) : m <= Len(series[i][2].items)
  IN  [r \in 1..n |-> [c \in 1..Len(series) |-> series[c][2].items[r]]]

\* a shuffle that reorders the first series only
Dataset_shuffle_FirstOnly(self, p) ==
  [self EXCEPT !.series =
     [c \in 1..Len(self.series) |->
        <<self.series[c][1],
          PyTuple([r \in 1..Len(self.series[c][2].items) |->
                     self.series[c][2].items[IF c = 1 THEN p[r] ELSE r]])>>]]

\* Dataset.shuffle with random.shuffle drawing the permutation p: every key that
\* zip(keys, zip(*zipped)) reaches is rebound to a tuple
Dataset_shuffle(self, p) ==
  LET zipped == Zipped(self.series)
      shuffled == [r \in 1..Len(zipped) |-> zipped[p[r]]]
      columns == IF shuffled = <<>> THEN 0 ELSE Len(shuffled[1])
  IN  [self EXCEPT !.series =
         [c \in 1..Len(self.series) |->
            IF c <= columns
            THEN <<self.series[c][1], PyTuple([r \in 1..Len(shuffled) |-> shuffled[r][c]])>>
            ELSE self.series[c]]]

\* LazyDataset.shuffle: pass
LazyDataset_shuffle(self, p) == self

shuffle(self, p) ==
  IF self.cls = "LazyDataset" THEN LazyDataset_shuffle(self, p) ELSE Dataset_shuffle(self, p)

\* ------------------------------------------------------------- the loader
NoneName == <<"None">>

RECURSIVE LoadSeries(_, _)
\* {key: list(create_dataset_series(path, preprocessor)) for key, path in ...}
LoadSeries(series_paths, pp) ==
  IF series_paths = <<>> THEN Return("dict", <<>>)
  ELSE Only({IF before.kind = "raise" THEN before
             ELSE IF data.kind = "raise" THEN data
             ELSE Return("dict", Append(before.val,
                                        <<series_paths[Len(series_paths)][1], PyList(data.val)>>))
               : before \in {LoadSeries(SubSeq(series_paths, 1, Len(series_paths) - 1), pp)},
                 data \in {Drain(create_dataset_series(series_paths[Len(series_paths)][2], pp),
                                 <<>>)}})

\* the eager branch: the series are read, the Dataset is built, its length is logged
LoadEager(name, series_paths, series_outputs, pp) ==
  Only({IF series.kind = "raise" THEN series
        ELSE Only({IF made.kind = "raise" THEN made
                   ELSE Only({IF length.kind = "raise" THEN length ELSE made
                                : length \in {len(made.val)}})
                     : made \in {Dataset__init__(name, series.val, series_outputs)}})
          : series \in {LoadSeries(series_paths, pp)}})

\* a loader without the check of lines 49-50
load_dataset_from_files_Unchecked(name, lazy, pp, kwargs) ==
  Only({Only({IF lazy THEN LazyDataset__init__(given, series_paths, series_outputs, pp)
              ELSE LoadEager(given, series_paths, series_outputs, pp)
                : given \in {IF name = NoneName THEN _get_name_from_paths(series_paths)
                             ELSE name}})
          : series_paths \in {_get_series_paths(kwargs)},
            series_outputs \in {_get_series_outputs(kwargs)}})

load_dataset_from_files(name, lazy, pp, kwargs) ==
  Only({IF Len(series_paths) = 0 THEN Raise("NoInputSeries", <<>>)
        ELSE Only({IF lazy THEN LazyDataset__init__(given, series_paths, series_outputs, pp)
                   ELSE LoadEager(given, series_paths, series_outputs, pp)
                     : given \in {IF name = NoneName THEN _get_name_from_paths(series_paths)
                                  ELSE name}})
          : series_paths \in {_get_series_paths(kwargs)},
            series_outputs \in {_get_series_outputs(kwargs)}})

\* ------------------------------------------------------------- batch_serie
\* The iterator of "for item in self.get_series(serie_name)": over the stored
\* object (a position in it) or over the generator a LazyDataset returns.
NoIter == [src |-> "none", items |-> <<>>, pos |-> 0, g |-> <<>>]

Iter(got) ==
  IF got.kind = "generator" THEN [NoIter EXCEPT !.src = "generator", !.g = got.val]
  ELSE [NoIter EXCEPT !.src = "object", !.items = got.val.items]

IterNext(it) ==
  IF it.src = "generator"
  THEN Only({[out |-> r.out, it |-> [it EXCEPT !.g = r.g]] : r \in {SeriesNext(it.g)}})
  ELSE IF it.pos < Len(it.items)
  THEN [out |-> Return("item", it.items[it.pos + 1]), it |-> [it EXCEPT !.pos = it.pos + 1]]
  ELSE [out |-> Return("stop", <<>>), it |-> it]

\* A batch_serie generator is [serie_name, batch_size, st, it]:
\*   st = "fresh"  created, body not started (get_series not called yet)
\*   st = "loop"   suspended at the yield inside the loop
\*   st = "tail"   suspended at the yield after the loop
\*   st = "done"   returned, st = "failed" raised
batch_serie(serie_name, batch_size) ==
  [serie_name |-> serie_name, batch_size |-> batch_size, st |-> "fresh", it |-> NoIter]

RECURSIVE FillBuf_NoTail(_, _, _)
\* a loop that forgets the items left in buf at the end of the series
FillBuf_NoTail(it, buf, batch_size) ==
  Only({IF r.out.kind = "item"
        THEN IF Len(buf) + 1 >= batch_size
             THEN [out |-> Return("chunk", Append(buf, r.out.val)), it |-> r.it, st |-> "loop"]
             ELSE FillBuf_NoTail(r.it, Append(buf, r.out.val), batch_size)
        ELSE IF r.out.kind = "stop"
        THEN [out |-> Return("stop", <<>>), it |-> r.it, st |-> "done"]
        ELSE [out |-> r.out, it |-> r.it, st |-> "failed"]
          : r \in {IterNext(it)}})

RECURSIVE FillBuf(_, _, _)
\* the loop body from an empty buf up to the next yield or the end of the series
FillBuf(it, buf, batch_size) ==
  Only({IF r.out.kind = "item"
        THEN IF Len(buf) + 1 >= batch_size
             THEN [out |-> Return("chunk", Append(buf, r.out.val)), it |-> r.it, st |-> "loop"]
             ELSE FillBuf(r.it, Append(buf, r.out.val), batch_size)
        ELSE IF r.out.kind = "stop"
        THEN IF buf # <<>>
             THEN [out |-> Return("chunk", buf), it |-> r.it, st |-> "tail"]
             ELSE [out |-> Return("stop", <<>>), it |-> r.it, st |-> "done"]
        ELSE [out |-> r.out, it |-> r.it, st |-> "failed"]
          : r \in {IterNext(it)}})

\* a generator that reads the series through the dataset at every next(),
\* from the position it had reached
BatchSerieNext_Live(self, b) ==
  IF b.st \in {"fresh", "loop"}
  THEN Only({IF got.kind = "raise" THEN [out |-> got, b |-> [b EXCEPT !.st = "failed"]]
             ELSE Only({[out |-> f.out, b |-> [b EXCEPT !.st = f.st, !.it = f.it]]
                          : f \in {FillBuf([Iter(got) EXCEPT !.pos = b.it.pos],
                                           <<>>, b.batch_size)}})
               : got \in {get_series(self, b.serie_name, FALSE)}})
  ELSE IF b.st = "tail" THEN [out |-> Return("stop", <<>>), b |-> [b EXCEPT !.st = "done"]]
  ELSE [out |-> Return("stop", <<>>), b |-> b]

\* one next() on the batch_serie generator b of the dataset self
BatchSerieNext(self, b) ==
  IF b.st \in {"fresh", "loop"}
  THEN Only({IF got.kind = "raise" THEN [out |-> got, b |-> [b EXCEPT !.st = "failed"]]
             ELSE Only({[out |-> f.out, b |-> [b EXCEPT !.st = f.st, !.it = f.it]]
                          : f \in {FillBuf(IF b.st = "fresh" THEN Iter(got) ELSE b.it,
                                           <<>>, b.batch_size)}})
               \* get_series is called once, when the body starts
               : got \in {IF b.st = "fresh" THEN get_series(self, b.serie_name, FALSE)
                          ELSE Return("None", <<>>)}})
  ELSE IF b.st = "tail" THEN [out |-> Return("stop", <<>>), b |-> [b EXCEPT !.st = "done"]]
  ELSE [out |-> Return("stop", <<>>), b |-> b]

\* ------------------------------------------------------------- batch_dataset
\* A batch_dataset generator is [batch_size, st, keys, batched_series, batch_index]:
\*   st = "fresh"  created, body not started
\*   st = "loop"   suspended at "yield dataset"
\*   st = "done"   returned, st = "failed" raised
batch_dataset(batch_size) ==
  [batch_size |-> batch_size, st |-> "fresh", keys |-> <<>>, batched_series |-> <<>>,
   batch_index |-> 0]

RECURSIVE ZipNext(_, _, _, _)
\* next(zip(*batched_series)): the generators are asked in order; the first one
\* that stops or raises ends the round, the ones before it have advanced
ZipNext(self, batched_series, i, acc) ==
  IF i > Len(batched_series)
  THEN IF batched_series = <<>>
       THEN [out |-> Return("stop", <<>>), batched_series |-> batched_series]
       ELSE [out |-> Return("tuple", acc), batched_series |-> batched_series]
  ELSE Only({IF r.out.kind = "chunk"
             THEN ZipNext(self, [batched_series EXCEPT ![i] = r.b], i + 1, Append(acc, r.out.val))
             ELSE [out |-> r.out, batched_series |-> [batched_series EXCEPT ![i] = r.b]]
               : r \in {BatchSerieNext(self, batched_series[i])}})

\* batches numbered from 1
BatchName_FromOne(name, batch_index) == name \o <<"-batch-", batch_index + 1>>

BatchName(name, batch_index) == name \o <<"-batch-", batch_index>>

\* the body of the loop of batch_dataset, from zip's next tuple to the yield
BatchLoop(self, d) ==
  Only({IF z.out.kind = "stop"
        THEN [out |-> z.out, d |-> [d EXCEPT !.batched_series = z.batched_series, !.st = "done"]]
        ELSE IF z.out.kind = "raise"
        THEN [out |-> z.out, d |-> [d EXCEPT !.batched_series = z.batched_series, !.st = "failed"]]
        ELSE Only({[out |-> made,
                    d |-> IF made.kind = "raise"
                          THEN [d EXCEPT !.batched_series = z.batched_series, !.st = "failed"]
                          ELSE [d EXCEPT !.batched_series = z.batched_series, !.st = "loop",
                                         !.batch_index = d.batch_index + 1]]
                     : made \in {Dataset__init__(
                         BatchName(self.name, d.batch_index),
                         [i \in 1..Len(d.keys) |-> <<d.keys[i], PyList(z.out.val[i])>>],
                         <<>>)}})
          : z \in {ZipNext(self, d.batched_series, 1, <<>>)}})

\* one next() on the batch_dataset generator d of the dataset self
BatchDatasetNext(self, d) ==
  IF d.st \in {"fresh", "loop"}
  THEN Only({BatchLoop(self, started)
               \* keys and batched_series are set once, when the body starts
               : started \in {IF d.st = "loop" THEN d
                              ELSE [d EXCEPT !.keys = DictKeys(self.series),
                                             !.batched_series =
                                                [i \in 1..Len(self.series) |->
                                                   batch_serie(self.series[i][1], d.batch_size)]]}})
  ELSE [out |-> Return("stop", <<>>), d |-> d]

\* ------------------------------------------------------------- inputs
\* dicts over at most two of the names with values from V
DictsOver(V) ==
  {<<>>}
  \cup {<<<<k, v>>>> : k \in {SrcName, TgtName}, v \in V}
  \cup {<<<<SrcName, v1>>, <<TgtName, v2>>>> : v1 \in V, v2 \in V}

ExampleSeqs == SeqsUpTo(Examples, MaxLen)

SrcList(es, n) == PyList([i \in 1..n |-> SrcItem(es[i])])

TgtList(es, n) == PyList([i \in 1..n |-> TgtItem(es[i])])

\* What a caller hands to Dataset(...): lists, as the signature Dict[str, List]
\* says; no series, one series, or the two series of a sequence of examples, of
\* which one may have lost its last items.
SeriesDicts ==
  {<<>>}
  \cup {<<<<SrcName, SrcList(es, Len(es))>>>> : es \in ExampleSeqs}
  \cup {<<<<TgtName, TgtList(es, Len(es))>>>> : es \in ExampleSeqs}
  \cup {<<<<SrcName, SrcList(ex[1], ex[2])>>, <<TgtName, TgtList(ex[1], ex[3])>>>> :
          ex \in {t \in ExampleSeqs \X (0..MaxLen) \X (0..MaxLen) :
                    /\ t[2] <= Len(t[1])
                    /\ t[3] <= Len(t[1])
                    /\ (t[2] = Len(t[1]) \/ t[3] = Len(t[1]))}}

PathDicts == DictsOver(Paths)

\* the output files a caller names when it constructs a dataset itself
Outputs == <<<<TgtName, OutPath>>>>

\* the keyword keys a caller may use: s_x, s_y, s_y_out and a key without prefix
KwargKeys ==
  {<<"s", "_", "x">>, <<"s", "_", "y">>, <<"s", "_", "y", "_", "o", "u", "t">>, <<"x">>}

KwargValues(key) == IF SERIES_SOURCE_match(key) THEN KwargPaths ELSE {OutPath}

\* a key with the path given for it
KwargPairs == UNION {{<<k, v>> : v \in KwargValues(k)} : k \in KwargKeys}

RECURSIVE KwargSeqs(_)
\* the keyword arguments of a call: at most n distinct keys, in any order
KwargSeqs(n) ==
  IF n = 0 THEN {<<>>}
  ELSE LET shorter == KwargSeqs(n - 1)
       IN  shorter \cup
           {Append(kw, kv) : kw \in {t \in shorter : Len(t) = n - 1}, kv \in KwargPairs}

\* keyword keys around the two patterns: with and without the prefix s_, a
\* name without underscore, and what may follow the name
KeyPrefixes == {<<"s", "_">>, <<"t", "_">>, <<>>}

KeySuffixes ==
  {<<>>, <<"_", "o", "u", "t">>, <<"_", "o", "u", "t", "e", "r">>,
   <<"_", "o", "u", "t", "_", "y">>, <<"_", "o", "u">>}

FormKeys == {pre \o name \o suf : pre \in KeyPrefixes, name \in {SrcName, TgtName}, suf \in KeySuffixes}

\* a key of FormKeys with a text file given for it
FormPairs == {<<k, [mime |-> MimeText, n |-> i]>> : k \in FormKeys, i \in 0..MaxLines}

RECURSIVE FormSeqs(_)
\* keyword arguments over FormKeys: at most n keys, in any order
FormSeqs(n) ==
  IF n = 0 THEN {<<>>}
  ELSE LET shorter == FormSeqs(n - 1)
       IN  shorter \cup
           {Append(kw, kv) : kw \in {t \in shorter : Len(t) = n - 1}, kv \in FormPairs}

\* ------------------------------------------------------------- state
VARIABLES
  dataset,   \* the dataset object the caller holds, NoDataset before construction
  gen,       \* the batch generator the caller holds: [type, g, out], out what it yielded
  its,       \* the generators of get_series the two readers hold: each [g, out]
  op,        \* the last call: [name, args]
  ret        \* what the last call returned or raised

vars == <<dataset, gen, its, op, ret>>

NoGen == [type |-> "none", g |-> <<>>, out |-> <<>>]

\* the two readers of a lazy dataset
Readers == {1, 2}

NoSeries == [g |-> [path |-> OutPath, pp |-> "identity", st |-> "none", pos |-> 0], out |-> <<>>]

Call(name, args) == [name |-> name, args |-> args]

Init ==
  /\ dataset = NoDataset
  /\ gen = NoGen
  /\ its = [reader \in Readers |-> NoSeries]
  /\ op = Call("none", <<>>)
  /\ ret = Return("None", <<>>)

\* the object a constructor call leaves the caller with
Bound(r) == IF r.kind = "raise" THEN NoDataset ELSE r.val

\* what the caller sees of a call: what it returned or raised (of a Dataset, its name)
Seen(r) == IF r.kind = "Dataset" THEN Return("Dataset", r.val.name) ELSE r

\* dataset = Dataset(name, series, series_outputs)
NewDataset ==
  /\ op.name = "none"
  /\ \E series \in SeriesDicts :
       \E r \in {Dataset__init__(DatasetName, series, Outputs)} :
         /\ dataset' = Bound(r)
         /\ op' = Call("Dataset", <<series>>)
         /\ ret' = Seen(r)
  /\ UNCHANGED <<gen, its>>

\* dataset = LazyDataset(name, series_paths, series_outputs, preprocess)
NewLazyDataset ==
  /\ op.name = "none"
  /\ \E series_paths \in PathDicts, pp \in Preprocessors :
       \E r \in {LazyDataset__init__(DatasetName, series_paths, Outputs, pp)} :
         /\ dataset' = Bound(r)
         /\ op' = Call("LazyDataset", <<series_paths>>)
         /\ ret' = Seen(r)
  /\ UNCHANGED <<gen, its>>

\* dataset = load_dataset_from_files(name, lazy, preprocessor, **kwargs)
LoadDatasetFromFiles ==
  /\ op.name = "none"
  /\ \E name \in {NoneName, DatasetName}, lazy \in BOOLEAN, pp \in Preprocessors,
        kwargs \in KwargSeqs(MaxKwargs) :
       /\ \A i, j \in 1..Len(kwargs) : kwargs[i][1] = kwargs[j][1] => i = j
       /\ \E r \in {load_dataset_from_files(name, lazy, pp, kwargs)} :
            /\ dataset' = Bound(r)
            /\ op' = Call("load_dataset_from_files", <<lazy, _get_series_paths(kwargs)>>)
            /\ ret' = Seen(r)
  /\ UNCHANGED <<gen, its>>

\* dataset = load_dataset_from_files(name, lazy, **kwargs) with keys of
\* FormKeys; the keyword arguments are kept with the call
LoadDatasetFromKeys ==
  /\ op.name = "none"
  /\ \E lazy \in BOOLEAN, kwargs \in FormSeqs(MaxKwargs) :
       /\ \A i, j \in 1..Len(kwargs) : kwargs[i][1] = kwargs[j][1] => i = j
       /\ \E r \in {load_dataset_from_files(DatasetName, lazy, "identity", kwargs)} :
            /\ dataset' = Bound(r)
            /\ op' = Call("load_dataset_from_files", <<lazy, _get_series_paths(kwargs), kwargs>>)
            /\ ret' = Seen(r)
  /\ UNCHANGED <<gen, its>>

\* len(dataset)
Size ==
  /\ dataset.cls # "none"
  /\ op' = Call("len", <<>>)
  /\ ret' = len(dataset)
  /\ UNCHANGED <<dataset, gen, its>>

\* dataset.shuffle()
Shuffle ==
  /\ dataset.cls # "none"
  /\ \E p \in Perms(Len(Zipped(dataset.series))) : dataset' = shuffle(dataset, p)
  /\ op' = Call("shuffle", <<>>)
  /\ ret' = Return("None", <<>>)
  /\ UNCHANGED <<gen, its>>

\* gen = dataset.batch_serie(serie_name, batch_size)
BatchSerie ==
  /\ dataset.cls # "none"
  /\ \E serie_name \in {SrcName, TgtName, OtherName}, batch_size \in 1..MaxBatch :
       /\ gen' = [type |-> "batch_serie", g |-> batch_serie(serie_name, batch_size), out |-> <<>>]
       /\ op' = Call("batch_serie", <<serie_name, batch_size>>)
  /\ ret' = Return("generator", <<>>)
  /\ UNCHANGED <<dataset, its>>

\* gen = dataset.batch_dataset(batch_size)
BatchDataset ==
  /\ dataset.cls # "none"
  /\ \E batch_size \in 1..MaxBatch :
       /\ gen' = [type |-> "batch_dataset", g |-> batch_dataset(batch_size), out |-> <<>>]
       /\ op' = Call("batch_dataset", <<batch_size>>)
  /\ ret' = Return("generator", <<>>)
  /\ UNCHANGED <<dataset, its>>

\* next(gen): what a generator yielded is appended to its record
GenNext ==
  /\ gen.type # "none"
  /\ \E r \in {IF gen.type = "batch_serie"
                THEN Only({[out |-> n.out, g |-> n.b] : n \in {BatchSerieNext(dataset, gen.g)}})
                ELSE Only({[out |-> n.out, g |-> n.d] : n \in {BatchDatasetNext(dataset, gen.g)}})} :
       /\ gen' = [gen EXCEPT !.g = r.g,
                             !.out = IF r.out.kind \in {"chunk", "Dataset"}
                                     THEN Append(gen.out, r.out.val) ELSE gen.out]
       /\ ret' = Seen(r.out)
  /\ op' = Call("next", <<gen.type>>)
  /\ UNCHANGED <<dataset, its>>

\* its[reader] = dataset.get_series(name, allow_none): a generator is held by
\* the reader (the one it held before is abandoned), anything else is returned
GetSeries ==
  /\ dataset.cls # "none"
  /\ \E reader \in Readers, name \in {SrcName, TgtName, OtherName}, allow_none \in BOOLEAN :
       \E r \in {get_series(dataset, name, allow_none)} :
         /\ its' = IF r.kind = "generator"
                   THEN [its EXCEPT ![reader] = [g |-> r.val, out |-> <<>>]]
                   ELSE its
         /\ op' = Call("get_series", <<reader, name, allow_none>>)
         /\ ret' = IF r.kind = "generator" THEN Return("generator", r.val.path) ELSE r
  /\ UNCHANGED <<dataset, gen>>

\* next(its[reader])
SeriesPull ==
  /\ \E reader \in Readers :
       /\ its[reader].g.st # "none"
       /\ \E r \in {SeriesNext(its[reader].g)} :
            /\ its' = [its EXCEPT ![reader] =
                         [g |-> r.g,
                          out |-> IF r.out.kind = "item"
                                  THEN Append(its[reader].out, r.out.val)
                                  ELSE its[reader].out]]
            /\ ret' = r.out
       /\ op' = Call("next", <<"series", reader>>)
  /\ UNCHANGED <<dataset, gen>>

\* an eager Dataset built by its constructor, shuffled and batched
Next ==
  \/ NewDataset
  \/ Size
  \/ Shuffle
  \/ BatchSerie
  \/ BatchDataset
  \/ GenNext

Spec == Init /\ [][Next]_vars

\* a LazyDataset, built by its constructor or by the loader, and batched
NextLazy ==
  \/ NewLazyDataset
  \/ LoadDatasetFromFiles
  \/ Size
  \/ Shuffle
  \/ BatchSerie
  \/ BatchDataset
  \/ GenNext

SpecLazy == Init /\ [][NextLazy]_vars

\* every way to a dataset, and the series read from it
NextLoad ==
  \/ NewDataset
  \/ NewLazyDataset
  \/ LoadDatasetFromFiles
  \/ Size
  \/ Shuffle
  \/ GetSeries
  \/ SeriesPull

SpecLoad == Init /\ [][NextLoad]_vars

\* the loader over the keys around the two patterns
NextKeys ==
  \/ LoadDatasetFromKeys
  \/ Size
  \/ Shuffle

SpecKeys == Init /\ [][NextKeys]_vars

\* ------------------------------------------------------------- properties
\* the lengths of all series of a dict
SeriesLens(series) == {Len(series[i][2].items) : i \in 1..Len(series)}

\* the values at index i across all series
RowAt(series, i) == [c \in 1..Len(series) |-> series[c][2].items[i]]

SizeOf(series) == IF series = <<>> THEN 0 ELSE Len(series[1][2].items)

Ceil(L, k) == (L + k - 1) \div k

\* the items at positions b*k .. min((b+1)*k, L)-1 of items, counting from 0
Slice(items, b, k) == SubSeq(items, b * k + 1, Min((b + 1) * k, Len(items)))

\* C1: Dataset(...) over series that do not all have the same length raises
\* LengthMismatch, the error lists every series name with its length and no
\* object results; every eager Dataset there is (the caller's, and every batch
\* a batch_dataset generator yielded) has all its series of one length.
C1_LengthMismatch ==
  /\ op.name = "Dataset" /\ Cardinality(SeriesLens(op.args[1])) > 1 =>
       /\ IsRaise(ret, "LengthMismatch")
       /\ Len(ret.info) = Len(op.args[1])
       /\ \A i \in 1..Len(op.args[1]) :
            \E j \in 1..Len(ret.info) :
              ret.info[j] = <<op.args[1][i][1], Len(op.args[1][i][2].items)>>
       /\ dataset = NoDataset
  /\ dataset.cls = "Dataset" => Cardinality(SeriesLens(dataset.series)) <= 1
  /\ gen.type = "batch_dataset" =>
       \A b \in 1..Len(gen.out) : Cardinality(SeriesLens(gen.out[b].series)) <= 1

\* a construction from series of lengths 3 and 1 has just failed
C1_Witness ==
  /\ op.name = "Dataset"
  /\ SeriesLens(op.args[1]) = {3, 1}
  /\ IsRaise(ret, "LengthMismatch")

\* C2 (as stated): Dataset(name, {}) and LazyDataset(name, {}) raise
\* NoInputSeries and leave the caller without an object.
C2_EmptyMappingFails ==
  op.name \in {"Dataset", "LazyDataset"} /\ op.args[1] = <<>> =>
    IsRaise(ret, "NoInputSeries") /\ dataset = NoDataset

\* C2 (amended): it is load_dataset_from_files that raises NoInputSeries, when
\* no keyword names a series file, eager or lazy, and then no object results;
\* the constructors accept an empty mapping and return a dataset without
\* series, whose length, if eager, is 0.
C2_OnlyLoaderFails ==
  /\ op.name = "load_dataset_from_files" /\ op.args[2] = <<>> =>
       IsRaise(ret, "NoInputSeries") /\ dataset = NoDataset
  /\ op.name = "load_dataset_from_files" /\ op.args[2] # <<>> =>
       ~IsRaise(ret, "NoInputSeries")
  /\ op.name \in {"Dataset", "LazyDataset"} /\ op.args[1] = <<>> =>
       /\ ret.kind = "Dataset"
       /\ dataset.cls = op.name
       /\ dataset.series = <<>>
       /\ dataset.cls = "Dataset" => len(dataset) = Return("int", 0)

\* a lazy load without a series file has just failed
C2_Witness ==
  /\ op.name = "load_dataset_from_files"
  /\ op.args[1]
  /\ op.args[2] = <<>>
  /\ IsRaise(ret, "NoInputSeries")
  /\ dataset = NoDataset

\* C3: a shuffle() step of an eager Dataset keeps the keys, the size and
\* everything but the order, and there is one permutation p of the indices such
\* that the row at i before the step is the row at p[i] after it, for all series
\* at once.  Holding of every shuffle step, it holds of any number of them.
C3_ShuffleStep ==
  op'.name = "shuffle" /\ dataset.cls = "Dataset" =>
    /\ dataset' = [dataset EXCEPT !.series = dataset'.series]
    /\ DictKeys(dataset'.series) = DictKeys(dataset.series)
    /\ \A c \in 1..Len(dataset.series) :
         Len(dataset'.series[c][2].items) = Len(dataset.series[c][2].items)
    /\ Dataset__len__(dataset') = Dataset__len__(dataset)
    /\ \E p \in Perms(SizeOf(dataset.series)) :
         \A i \in 1..SizeOf(dataset.series) :
           RowAt(dataset'.series, p[i]) = RowAt(dataset.series, i)

C3_ShufflePermutes == [][C3_ShuffleStep]_vars

\* a dataset of two series and three rows, two of them different, was shuffled
C3_Witness ==
  /\ op.name = "shuffle"
  /\ dataset.cls = "Dataset"
  /\ Len(dataset.series) = 2
  /\ SizeOf(dataset.series) = 3
  /\ RowAt(dataset.series, 1) # RowAt(dataset.series, 2)
  /\ dataset.series[1][2].kind = "tuple"

\* C4: a batch_serie generator over an eager series of length L with batch size
\* k yields, in order, the slices [0,k), [k,2k), ... of the series (so every
\* chunk but the last has k items, the last has 1..k, none is empty and their
\* concatenation is the series), ceil(L/k) of them when it has stopped; the
\* series is the one the dataset holds when the generator is first asked, from
\* its first item, whatever generators were used before.
C4_BatchSerie ==
  gen.type = "batch_serie" /\ dataset.cls = "Dataset" /\ gen.g.st \notin {"fresh", "failed"} =>
    LET items == gen.g.it.items
        k == gen.g.batch_size
    IN  /\ \A b \in 1..Len(gen.out) :
             /\ gen.out[b] = Slice(items, b - 1, k)
             /\ Len(gen.out[b]) \in 1..k
             /\ b < Len(gen.out) => Len(gen.out[b]) = k
        /\ Len(gen.out) <= Ceil(Len(items), k)
        /\ gen.g.st = "done" => Len(gen.out) = Ceil(Len(items), k)
        /\ op.name = "next" /\ Len(gen.out) = 1 /\ gen.g.st # "done" =>
             items = DictGet(dataset.series, gen.g.serie_name).items
        /\ op.name = "next" /\ gen.out = <<>> =>
             DictGet(dataset.series, gen.g.serie_name).items = <<>>

\* a series of 3 items was batched by 2 to its end: two chunks, of 2 and 1
C4_Witness ==
  /\ gen.type = "batch_serie"
  /\ dataset.cls = "Dataset"
  /\ gen.g.st = "done"
  /\ gen.g.batch_size = 2
  /\ Len(gen.g.it.items) = 3
  /\ Len(gen.out) = 2
  /\ Len(gen.out[2]) = 1

\* C5: what a batch_dataset generator of an eager Dataset named N yielded: the
\* batch at position b is named N-batch-b, has no outputs and the keys of the
\* parent, and holds for every series the slice [b*k, min((b+1)*k, L)) of the
\* series the parent held when the generator was first asked, so that at every
\* position of a batch the items of all series are of one example; there are
\* ceil(L/k) batches when it has stopped.
C5_Batches ==
  gen.type = "batch_dataset" /\ dataset.cls = "Dataset" /\ gen.g.st # "fresh" =>
    LET d == gen.g
        k == d.batch_size
        L == IF d.batched_series = <<>> THEN 0 ELSE Len(d.batched_series[1].it.items)
    IN  /\ d.keys = DictKeys(dataset.series)
        /\ \A b \in 1..Len(gen.out) :
             /\ gen.out[b].cls = "Dataset"
             /\ gen.out[b].name = dataset.name \o <<"-batch-", b - 1>>
             /\ gen.out[b].series_outputs = <<>>
             /\ DictKeys(gen.out[b].series) = DictKeys(dataset.series)
             /\ \A c \in 1..Len(d.keys) :
                  gen.out[b].series[c][2].items = Slice(d.batched_series[c].it.items, b - 1, k)
             /\ \A c \in 1..Len(d.keys), i \in 1..SizeOf(gen.out[b].series) :
                  gen.out[b].series[c][2].items[i][2] = gen.out[b].series[1][2].items[i][2]
        /\ d.st = "done" => Len(gen.out) = Ceil(L, k)
        /\ d.st # "failed"
        /\ op.name = "next" /\ Len(gen.out) = 1 /\ d.st # "done" =>
             \A c \in 1..Len(d.keys) :
               d.batched_series[c].it.items = dataset.series[c][2].items

\* a step of the generator leaves the parent dataset as it was
C5_ParentStep == op'.name = "next" => dataset' = dataset

C5_BatchAll == [](C5_Batches) /\ [][C5_ParentStep]_vars

\* a dataset of two series and 3 examples was batched by 2 to its end
C5_Witness ==
  /\ gen.type = "batch_dataset"
  /\ dataset.cls = "Dataset"
  /\ gen.g.st = "done"
  /\ gen.g.batch_size = 2
  /\ Len(dataset.series) = 2
  /\ Len(gen.out) = 2
  /\ SizeOf(gen.out[1].series) = 2
  /\ SizeOf(gen.out[2].series) = 1
  /\ dataset.series_outputs # <<>>

\* the items a text file gives through the preprocessor pp
FileItems(path, pp) ==
  [i \in 1..Len(PlainTextFileReader_read(path)) |->
     Preprocess(pp, PlainTextFileReader_read(path)[i])]

\* C6: of a LazyDataset over text files, what each reader got from the
\* generator get_series returned to it is a prefix of the whole file, line by
\* line through preprocess, from the first line: nothing when it was just
\* returned, the whole file when it has stopped, whatever the other reader did
\* with its generators and whatever this reader did with its earlier ones.
C6_Streams ==
  dataset.cls = "LazyDataset" =>
    /\ \A reader \in Readers :
         its[reader].g.st # "none" /\ magic_from_file(its[reader].g.path) = MimeText =>
           LET whole == FileItems(its[reader].g.path, dataset.preprocess)
               got == its[reader].out
           IN  /\ Len(got) <= Len(whole)
               /\ got = SubSeq(whole, 1, Len(got))
               /\ its[reader].g.st = "done" => got = whole
               /\ its[reader].g.st # "done" =>
                    SeriesNext(its[reader].g).out =
                      IF Len(got) < Len(whole) THEN Return("item", whole[Len(got) + 1])
                      ELSE Return("stop", <<>>)
    /\ op.name = "get_series" /\ ret.kind = "generator" =>
         /\ ret.val = DictGet(dataset.series_paths, op.args[2])
         /\ its[op.args[1]].g.path = ret.val
         /\ its[op.args[1]].out = <<>>

\* shuffle() of a LazyDataset changes neither the dataset nor any generator
C6_ShuffleStep ==
  op'.name = "shuffle" /\ dataset.cls = "LazyDataset" => dataset' = dataset /\ its' = its

C6_LazyStreams == [](C6_Streams) /\ [][C6_ShuffleStep]_vars

\* two readers of the same file of 3 lines: one has read it all, the other one
\* line, through a preprocessor that changes the lines
C6_Witness ==
  /\ dataset.cls = "LazyDataset"
  /\ dataset.preprocess = "lower"
  /\ its[1].g.path = [mime |-> MimeText, n |-> 3]
  /\ its[2].g.path = its[1].g.path
  /\ its[1].g.st = "done"
  /\ Len(its[1].out) = 3
  /\ its[2].g.st = "open"
  /\ Len(its[2].out) = 1

\* C7: len() of a LazyDataset raises SizeUnknown in every state, whatever was
\* called before, and what the last len() gave was that error, never a number;
\* LazyDataset(...) and load_dataset_from_files(lazy=True, ...) never raise
\* SizeUnknown, and give a LazyDataset whenever there is a series file.
C7_SizeUnknown ==
  /\ dataset.cls = "LazyDataset" => IsRaise(len(dataset), "SizeUnknown")
  /\ op.name = "len" /\ dataset.cls = "LazyDataset" =>
       IsRaise(ret, "SizeUnknown") /\ ret.kind # "int"
  /\ op.name = "LazyDataset" => ret.kind = "Dataset" /\ dataset.cls = "LazyDataset"
  /\ op.name = "load_dataset_from_files" /\ op.args[1] =>
       /\ ~IsRaise(ret, "SizeUnknown")
       /\ op.args[2] # <<>> => ret.kind = "Dataset" /\ dataset.cls = "LazyDataset"

\* len() of a LazyDataset that was batched has just failed
C7_Witness ==
  /\ op.name = "len"
  /\ dataset.cls = "LazyDataset"
  /\ IsRaise(ret, "SizeUnknown")
  /\ gen.type = "batch_dataset"
  /\ Len(gen.out) >= 1

\* a batch_dataset generator of a LazyDataset over text files of different lengths
C8_Case ==
  /\ dataset.cls = "LazyDataset"
  /\ gen.type = "batch_dataset"
  /\ gen.g.st # "fresh"
  /\ \A c \in 1..Len(dataset.series_paths) :
       magic_from_file(dataset.series_paths[c][2]) = MimeText
  /\ Cardinality({Len(PlainTextFileReader_read(dataset.series_paths[c][2])) :
                    c \in 1..Len(dataset.series_paths)}) > 1

\* the length of the shortest series of the case
C8_Shortest ==
  CHOOSE m \in {Len(PlainTextFileReader_read(dataset.series_paths[c][2])) :
                  c \in 1..Len(dataset.series_paths)} :
    \A c \in 1..Len(dataset.series_paths) :
      m <= Len(PlainTextFileReader_read(dataset.series_paths[c][2]))

\* C8 (as stated): when the series of a LazyDataset differ in length,
\* batch_dataset never raises.
C8_SilentTruncation ==
  C8_Case => gen.g.st # "failed" /\ ~(op.name = "next" /\ ret.kind = "raise")

\* C8 (amended): with m the length of the shortest series, every batch yielded
\* holds k items of every series, the slice [b*k, (b+1)*k), and there are at
\* most m div k of them; the generator stops silently, after m div k batches,
\* only when k divides m; otherwise it raises LengthMismatch after m div k
\* batches, from the constructor of the batch whose chunks differ in size.
C8_TruncatesOrFails ==
  C8_Case =>
    LET k == gen.g.batch_size
        m == C8_Shortest
    IN  /\ \A b \in 1..Len(gen.out), c \in 1..Len(dataset.series_paths) :
             /\ Len(gen.out[b].series[c][2].items) = k
             /\ gen.out[b].series[c][2].items =
                  Slice(FileItems(dataset.series_paths[c][2], dataset.preprocess), b - 1, k)
        /\ Len(gen.out) <= m \div k
        /\ gen.g.st = "done" => m % k = 0 /\ Len(gen.out) = m \div k
        /\ gen.g.st = "failed" => m % k # 0 /\ Len(gen.out) = m \div k
        /\ op.name = "next" /\ ret.kind = "raise" =>
             IsRaise(ret, "LengthMismatch") /\ gen.g.st = "failed"

\* the generator has just raised LengthMismatch
C8_Witness ==
  /\ C8_Case
  /\ gen.g.st = "failed"
  /\ op.name = "next"
  /\ IsRaise(ret, "LengthMismatch")

\* C9: a series read from a numeric file holds every record of the file, in
\* file order: the series of a dataset loaded eagerly, and what a reader got
\* from a generator of get_series that has stopped.
C9_NumericRecords ==
  /\ op.name = "load_dataset_from_files" /\ ~op.args[1] /\ ret.kind = "Dataset" =>
       \A c \in 1..Len(op.args[2]) :
         magic_from_file(op.args[2][c][2]) = MimeNumeric =>
           dataset.series[c][2].items = np_load(op.args[2][c][2])
  /\ \A reader \in Readers :
       its[reader].g.st = "done" /\ magic_from_file(its[reader].g.path) = MimeNumeric =>
         its[reader].out = np_load(its[reader].g.path)

\* C10: opening a file of an unsupported type as a series raises
\* UnsupportedFormat with the detected type and the path: an eager load raises
\* it and gives no dataset, get_series of a LazyDataset raises it, and no
\* reader ever gets an item of such a file.
C10_Unsupported ==
  /\ op.name = "load_dataset_from_files" /\ ~op.args[1] =>
       \A c \in 1..Len(op.args[2]) :
         \/ magic_from_file(op.args[2][c][2]) # MimeOther
         \/ \E e \in 1..(c - 1) : magic_from_file(op.args[2][e][2]) = MimeOther
         \/ /\ IsRaise(ret, "UnsupportedFormat")
            /\ ret.info = <<MimeOther, op.args[2][c][2]>>
            /\ dataset = NoDataset
  /\ \A reader \in Readers :
       magic_from_file(its[reader].g.path) = MimeOther => its[reader].out = <<>>
  /\ /\ op.name = "get_series"
     /\ dataset.cls = "LazyDataset"
     /\ DictHas(dataset.series_paths, op.args[2])
     => \/ magic_from_file(DictGet(dataset.series_paths, op.args[2])) # MimeOther
        \/ /\ IsRaise(ret, "UnsupportedFormat")
           /\ ret.info = <<MimeOther, DictGet(dataset.series_paths, op.args[2])>>

\* the key is s_X for the name X
InputForm(key, X) == key = <<"s", "_">> \o X

\* the key is s_X_out for the name X
OutputForm(key, X) == key = <<"s", "_">> \o X \o <<"_", "o", "u", "t">>

\* the <<name, path>> pairs of a dict
DictPairs(d) == {d[i] : i \in 1..Len(d)}

\* C11: after load_dataset_from_files(**kwargs), for names X without an
\* underscore, the series paths are exactly the <<X, path>> of the keys s_X,
\* and the outputs of the dataset obtained are exactly the <<X, path>> of the
\* keys s_X_out; no other key adds to either mapping.
C11_KeyForms ==
  op.name = "load_dataset_from_files" /\ Len(op.args) = 3 =>
    LET kwargs == op.args[3]
        names == {SrcName, TgtName}
    IN  /\ DictPairs(op.args[2]) =
             UNION {{<<X, kwargs[i][2]>> : X \in {Y \in names : InputForm(kwargs[i][1], Y)}} :
                      i \in 1..Len(kwargs)}
        /\ dataset.cls = "LazyDataset" => dataset.series_paths = op.args[2]
        /\ ret.kind = "Dataset" =>
             DictPairs(dataset.series_outputs) =
               UNION {{<<X, kwargs[i][2]>> : X \in {Y \in names : OutputForm(kwargs[i][1], Y)}} :
                        i \in 1..Len(kwargs)}

\* the rows of a dataset's series, in order
Rows(series) == [i \in 1..SizeOf(series) |-> RowAt(series, i)]

RECURSIVE BatchRows(_)
\* the rows of the batches yielded, in the order they were yielded
BatchRows(out) ==
  IF out = <<>> THEN <<>>
  ELSE BatchRows(SubSeq(out, 1, Len(out) - 1)) \o Rows(out[Len(out)].series)

\* the rows of the series as the generators of batch_dataset hold them
HeldRows(d) ==
  [i \in 1..(IF d.batched_series = <<>> THEN 0 ELSE Len(d.batched_series[1].it.items)) |->
     [c \in 1..Len(d.batched_series) |-> d.batched_series[c].it.items[i]]]

\* C12: whatever shuffles of the parent came between the creation of a
\* batch_dataset generator and its pulls, every row of every batch yielded
\* holds items of one example in all series; the rows yielded so far are the
\* first rows of the order the parent had at the first pull, which is a
\* permutation of the rows the parent has now; and when the generator has
\* stopped the rows yielded are all of them, each once.
C12_AlignedUnderShuffle ==
  gen.type = "batch_dataset" /\ dataset.cls = "Dataset" /\ gen.g.st # "fresh" =>
    LET yielded == BatchRows(gen.out)
        held == HeldRows(gen.g)
        now == Rows(dataset.series)
    IN  /\ \A i \in 1..Len(yielded) :
             \A c \in 1..Len(yielded[i]) : yielded[i][c][2] = yielded[i][1][2]
        /\ Len(yielded) <= Len(held)
        /\ yielded = SubSeq(held, 1, Len(yielded))
        /\ Len(held) = Len(now)
        /\ \E p \in Perms(Len(now)) : \A i \in 1..Len(now) : held[i] = now[p[i]]
        /\ gen.g.st = "done" =>
             /\ yielded = held
             /\ \E p \in Perms(Len(now)) : \A i \in 1..Len(now) : yielded[i] = now[p[i]]
        /\ op.name = "next" /\ Len(gen.out) = 1 /\ gen.g.st # "done" => held = now

\* a dataset of two series and 3 examples was batched by 2 and shuffled between
\* the first pull and the second, which has just yielded the second batch: the
\* generators hold an order the parent no longer has
C12_Witness ==
  /\ gen.type = "batch_dataset"
  /\ dataset.cls = "Dataset"
  /\ op.name = "next"
  /\ gen.g.st = "loop"
  /\ gen.g.batch_size = 2
  /\ Len(dataset.series) = 2
  /\ Len(gen.out) = 2
  /\ Len(BatchRows(gen.out)) = 3
  /\ HeldRows(gen.g) # Rows(dataset.series)

====
